---------------------------- MODULE Spec2Model ----------------------------
(***************************************************************************)
(* Model of extensions/git/src/decorationProvider.ts:                      *)
(*   GitIgnoreDecorationProvider  - the coalescing query queue             *)
(*   GitDecorationProvider        - the decoration aggregator              *)
(*   GitDecorations               - the provider registry                  *)
(* A JavaScript Map is modelled as a sequence of [key, value] records in   *)
(* insertion order with at most one record per key, which is what          *)
(* Map.set / Map.delete / Map.forEach operate on.                          *)
(***************************************************************************)
EXTENDS Integers, Sequences, FiniteSets, TLC

\* ------------------------------------------------------------------ bounds
MaxQueries == 3
TickStep == 250
MaxGroupLen == 1
MaxOperations == 3
MaxPairs == 3
MaxDisposeCalls == 2
MaxLookupOperations == 2

\* ------------------------------------------------------- program constants
DebounceDelay == 500
Priority == 3
OpacityPct == 75

Paths == {"/repo/a.txt", "/repo/b.txt", "/repo/c.txt"}
Errors == {"E1", "E2"}
NoError == "none"
TimerOff == -1
TickSteps == {TickStep, DebounceDelay - 1}

\* Uri values and the strings Uri.toString() gives for them
Uris == {"x", "y", "z"}
UriString == [u \in Uris |-> <<"file://", u>>]
Decorations == {"D1", "D2"}
NoDecoration == "none"

\* Repository sessions
Sessions == {"r1", "r2"}

\* The handles the three components keep in their disposables arrays
Handles == {"ignoreRegistration", "aggRegistration", "aggSubscription",
            "modelSubscriptions"}

VARIABLES
  checkIgnoreQueue,  \* GitIgnoreDecorationProvider.checkIgnoreQueue
  ignoreRegistered,  \* the queue's host registration (its disposables) is live
  timer,             \* ms left on the debounce timer of checkIgnoreSoon, or TimerOff
  promises,          \* the promise created by each provideDecoration call, in call order
  calls,             \* every repository.checkIgnore call made, in order: its argument
                     \* (keys), the Map its callbacks close over (queue), the number of
                     \* provideDecoration calls made before it (asked) and its outcome
  sinceQuery,        \* ms since the latest provideDecoration call (saturates at DebounceDelay)
  burst,             \* history: the current run of provideDecoration calls (indices into
                     \* promises), each made within the quiet period of the previous one
  burstCalls,        \* history: indices into calls of the lookups issued since the run began
  abandoned,         \* history: the promises whose entry dispose() cleared from the queue
  indexGroup,        \* repository.indexGroup.resourceStates
  workingTreeGroup,  \* repository.workingTreeGroup.resourceStates
  decorations,       \* GitDecorationProvider.decorations
  aggRegistered,     \* the aggregator's host registration is live
  aggSubscribed,     \* the aggregator's repository.onDidRunOperation subscription is live
  operations,        \* number of operations the repository has run
  emitted,           \* number of onDidChangeDecorations events the aggregator has fired
  lastFired,         \* the latest event: the operation that caused it and its Uri[]
  oldDecorations,    \* history: decorations as it was before the latest recomputation
  lastProvided,      \* the latest GitDecorationProvider.provideDecoration call: its
                     \* argument and what it returned
  repositories,      \* model.repositories: the open sessions, in the order they opened
  constructed,       \* the GitDecorations constructor has run
  regSubscribed,     \* GitDecorations.disposables: its two model subscriptions are live
  regDisposed,       \* GitDecorations.dispose() has been called
  providers,         \* GitDecorations.providers: session -> index into pairs
  pairs,             \* every Disposable.from(provider, ignoreProvider) created, in order
  lastEvent,         \* history: the latest event and what it met
  dispatchedLive,    \* history: per lookup, the queue was undisposed when it was issued
  completedLive,     \* history: per lookup, the queue was undisposed when it completed
  handleCalls,       \* history: per disposable handle, the dispose() calls it received
  releases           \* history: per disposable handle, the release effects it had

histVars == <<dispatchedLive, completedLive, handleCalls, releases>>

queueVars == <<checkIgnoreQueue, ignoreRegistered, timer, promises, calls,
               sinceQuery, burst, burstCalls, abandoned>>

aggVars == <<indexGroup, workingTreeGroup, decorations, aggRegistered, aggSubscribed,
             operations, emitted, lastFired, oldDecorations,
                 lastProvided>>

regVars == <<repositories, constructed, regSubscribed, regDisposed, providers, pairs,
             lastEvent>>

vars == <<queueVars, aggVars, regVars, histVars>>

\* ---------------------------------------------------------- Map operations
Range(s) == {s[i] : i \in DOMAIN s}

Max(S) == CHOOSE x \in S : \A y \in S : y <= x

Min(a, b) == IF a < b THEN a ELSE b

MapHas(m, k) == \E i \in DOMAIN m : m[i].key = k

MapGet(m, k) == (CHOOSE e \in Range(m) : e.key = k).value

\* Variant: set() always adds a record, also for a key the Map already holds.
MapSet_append(m, k, v) == Append(m, [key |-> k, value |-> v])

MapSet(m, k, v) ==
  IF MapHas(m, k)
    THEN [i \in DOMAIN m |-> IF m[i].key = k THEN [key |-> k, value |-> v] ELSE m[i]]
    ELSE Append(m, [key |-> k, value |-> v])

MapDelete(m, k) == SelectSeq(m, LAMBDA e : e.key # k)

MapKeys(m) == [i \in DOMAIN m |-> m[i].key]

MapClear(m) == << >>

\* -------------------------------------------------------- promise handling
NewPromise(p) == [path |-> p, status |-> "pending", ignored |-> FALSE,
                  err |-> NoError, settles |-> 0]

\* value.resolve(b): the first resolve or reject settles a promise, later ones are ignored.
Resolve(pr, b) ==
  IF pr.status = "pending"
    THEN [pr EXCEPT !.status = "resolved", !.ignored = b, !.settles = @ + 1]
    ELSE [pr EXCEPT !.settles = @ + 1]

\* value.reject(err)
Reject(pr, e) ==
  IF pr.status = "pending"
    THEN [pr EXCEPT !.status = "rejected", !.err = e, !.settles = @ + 1]
    ELSE [pr EXCEPT !.settles = @ + 1]

\* .then(ignored => ignored ? {priority: 3, opacity: 0.75} : undefined)
Undefined == [kind |-> "undefined"]
IgnoredDecoration == [kind |-> "decoration", priority |-> Priority, opacityPct |-> OpacityPct]
DecorationOf(ignored) == IF ignored THEN IgnoredDecoration ELSE Undefined

\* What the promise returned by provideDecoration has yielded.
Outcome(pr) ==
  CASE pr.status = "pending"  -> [state |-> "pending"]
    [] pr.status = "resolved" -> [state |-> "fulfilled", value |-> DecorationOf(pr.ignored)]
    [] pr.status = "rejected" -> [state |-> "rejected", err |-> pr.err]

\* ---------------------------------------------------------------- debounce
\* clearTimeout + setTimeout(fn, delay): every call restarts the full delay.
Debounce(t, delay) == delay

\* ------------------------------------------------- GitIgnoreDecorationProvider
QueueInit ==
  /\ checkIgnoreQueue = << >>
  /\ ignoreRegistered = TRUE
  /\ timer = TimerOff
  /\ promises = << >>
  /\ calls = << >>
  /\ sinceQuery = DebounceDelay
  /\ burst = << >>
  /\ burstCalls = << >>
  /\ abandoned = {}

\* The run of calls goes on when this call comes within the quiet period of the
\* previous one (or at its very end, before the due timer callback has run).
BurstGoesOn == sinceQuery < DebounceDelay \/ (burst # << >> /\ timer = 0)

\* Variant: checkIgnoreSoon is called only for the first entry of a batch, so a
\* later call does not restart the quiet period.
provideDecoration_noRestart(uri) ==
  /\ Len(promises) < MaxQueries
  /\ promises' = Append(promises, NewPromise(uri))
  /\ checkIgnoreQueue' = MapSet(checkIgnoreQueue, uri, Len(promises) + 1)
  /\ timer' = IF timer = TimerOff THEN Debounce(timer, DebounceDelay) ELSE timer
  /\ sinceQuery' = 0
  /\ burst' = IF BurstGoesOn THEN Append(burst, Len(promises) + 1)
                               ELSE <<Len(promises) + 1>>
  /\ burstCalls' = IF BurstGoesOn THEN burstCalls ELSE << >>
  /\ UNCHANGED <<ignoreRegistered, calls, abandoned>>

provideDecoration(uri) ==
  /\ Len(promises) < MaxQueries
  /\ promises' = Append(promises, NewPromise(uri))
  /\ checkIgnoreQueue' = MapSet(checkIgnoreQueue, uri, Len(promises) + 1)
  /\ timer' = Debounce(timer, DebounceDelay)
  /\ sinceQuery' = 0
  /\ burst' = IF BurstGoesOn THEN Append(burst, Len(promises) + 1)
                               ELSE <<Len(promises) + 1>>
  /\ burstCalls' = IF BurstGoesOn THEN burstCalls ELSE << >>
  /\ UNCHANGED <<ignoreRegistered, calls, abandoned>>

\* Variant: the pending set is handed to the lookup and not cleared.
checkIgnoreSoon_noClear ==
  /\ timer = 0
  /\ LET queue == checkIgnoreQueue
     IN  /\ calls' = Append(calls, [keys |-> MapKeys(queue), queue |-> queue,
                                    asked |-> Len(promises),
                                    status |-> "inflight", ignoreSet |-> {},
                                    err |-> NoError])
         /\ burstCalls' = Append(burstCalls, Len(calls) + 1)
  /\ timer' = TimerOff
  /\ UNCHANGED <<checkIgnoreQueue, ignoreRegistered, promises, sinceQuery, burst,
                 abandoned>>

\* The body of checkIgnoreSoon, run by the debounce timer.
checkIgnoreSoon ==
  /\ timer = 0
  /\ LET queue == checkIgnoreQueue
     IN  /\ calls' = Append(calls, [keys |-> MapKeys(queue), queue |-> queue,
                                    asked |-> Len(promises),
                                    status |-> "inflight", ignoreSet |-> {},
                                    err |-> NoError])
         /\ burstCalls' = Append(burstCalls, Len(calls) + 1)
  /\ checkIgnoreQueue' = MapClear(checkIgnoreQueue)
  /\ timer' = TimerOff
  /\ UNCHANGED <<ignoreRegistered, promises, sinceQuery, burst, abandoned>>

RECURSIVE ResolveAll(_, _, _, _)
\* for (const [key, value] of queue.entries()) value.resolve(ignoreSet.has(key))
ResolveAll(prs, queue, i, ignoreSet) ==
  IF i > Len(queue) THEN prs
  ELSE ResolveAll([prs EXCEPT ![queue[i].value] = Resolve(@, queue[i].key \in ignoreSet)],
                  queue, i + 1, ignoreSet)

RECURSIVE RejectAll(_, _, _, _)
\* for (const [, value] of queue.entries()) value.reject(err)
RejectAll(prs, queue, i, e) ==
  IF i > Len(queue) THEN prs
  ELSE RejectAll([prs EXCEPT ![queue[i].value] = Reject(@, e)], queue, i + 1, e)

\* Variant: the callbacks are taken from the live checkIgnoreQueue instead of the
\* copy made at dispatch.
checkIgnoreFulfilled_liveQueue(c, ignoreSet) ==
  /\ c \in DOMAIN calls
  /\ calls[c].status = "inflight"
  /\ promises' = ResolveAll(promises, checkIgnoreQueue, 1, ignoreSet)
  /\ calls' = [calls EXCEPT ![c].status = "ok", ![c].ignoreSet = ignoreSet]
  /\ UNCHANGED <<checkIgnoreQueue, ignoreRegistered, timer, sinceQuery, burst,
                 burstCalls, abandoned>>

\* Variant: the completion handler does nothing once the provider is disposed.
checkIgnoreFulfilled_unlessDisposed(c, ignoreSet) ==
  /\ c \in DOMAIN calls
  /\ calls[c].status = "inflight"
  /\ promises' = IF ignoreRegistered
                   THEN ResolveAll(promises, calls[c].queue, 1, ignoreSet)
                   ELSE promises
  /\ calls' = [calls EXCEPT ![c].status = "ok", ![c].ignoreSet = ignoreSet]
  /\ UNCHANGED <<checkIgnoreQueue, ignoreRegistered, timer, sinceQuery, burst,
                 burstCalls, abandoned>>

\* repository.checkIgnore(...) fulfils with ignoreSet
checkIgnoreFulfilled(c, ignoreSet) ==
  /\ c \in DOMAIN calls
  /\ calls[c].status = "inflight"
  /\ promises' = ResolveAll(promises, calls[c].queue, 1, ignoreSet)
  /\ calls' = [calls EXCEPT ![c].status = "ok", ![c].ignoreSet = ignoreSet]
  /\ UNCHANGED <<checkIgnoreQueue, ignoreRegistered, timer, sinceQuery, burst,
                 burstCalls, abandoned>>

\* Variant: only the first callback of the batch is rejected.
checkIgnoreRejected_firstOnly(c, e) ==
  /\ c \in DOMAIN calls
  /\ calls[c].status = "inflight"
  /\ promises' = RejectAll(promises, SubSeq(calls[c].queue, 1, 1), 1, e)
  /\ calls' = [calls EXCEPT ![c].status = "failed", ![c].err = e]
  /\ UNCHANGED <<checkIgnoreQueue, ignoreRegistered, timer, sinceQuery, burst,
                 burstCalls, abandoned>>

\* repository.checkIgnore(...) rejects with err
checkIgnoreRejected(c, e) ==
  /\ c \in DOMAIN calls
  /\ calls[c].status = "inflight"
  /\ promises' = RejectAll(promises, calls[c].queue, 1, e)
  /\ calls' = [calls EXCEPT ![c].status = "failed", ![c].err = e]
  /\ UNCHANGED <<checkIgnoreQueue, ignoreRegistered, timer, sinceQuery, burst,
                 burstCalls, abandoned>>

\* Variant: dispose() releases the registration and leaves the pending set as it is.
ignoreDispose_noClear ==
  /\ ignoreRegistered' = FALSE
  /\ abandoned' = abandoned \cup {e.value : e \in Range(checkIgnoreQueue)}
  /\ UNCHANGED <<checkIgnoreQueue, timer, promises, calls, sinceQuery, burst, burstCalls>>

\* Variant: dispose() on a disposed queue raises an error.
ignoreDispose_once ==
  /\ ignoreRegistered
  /\ ignoreRegistered' = FALSE
  /\ checkIgnoreQueue' = MapClear(checkIgnoreQueue)
  /\ abandoned' = abandoned \cup {e.value : e \in Range(checkIgnoreQueue)}
  /\ UNCHANGED <<timer, promises, calls, sinceQuery, burst, burstCalls>>

ignoreDispose ==
  /\ ignoreRegistered' = FALSE
  /\ checkIgnoreQueue' = MapClear(checkIgnoreQueue)
  /\ abandoned' = abandoned \cup {e.value : e \in Range(checkIgnoreQueue)}
  /\ UNCHANGED <<timer, promises, calls, sinceQuery, burst, burstCalls>>

\* Time passes; a due timer callback runs before time passes further.
Tick(d) ==
  /\ timer # 0
  /\ \/ timer # TimerOff
     \/ sinceQuery < DebounceDelay
  /\ timer' = IF timer = TimerOff THEN TimerOff ELSE timer - Min(d, timer)
  /\ sinceQuery' = Min(DebounceDelay,
                       sinceQuery + (IF timer = TimerOff THEN d ELSE Min(d, timer)))
  /\ UNCHANGED <<checkIgnoreQueue, ignoreRegistered, promises, calls, burst,
                 burstCalls, abandoned>>

\* ------------------------------------------------------ GitDecorationProvider
\* A resource state: its original Uri and its resourceDecoration, if any.
ResourceStates == [original : Uris, resourceDecoration : Decorations \cup {NoDecoration}]

RECURSIVE SeqsUpTo(_, _)
SeqsUpTo(S, n) ==
  IF n = 0 THEN {<< >>}
  ELSE LET shorter == SeqsUpTo(S, n - 1)
       IN  shorter \cup {Append(q, x) : q \in shorter, x \in S}

GroupValues == SeqsUpTo(ResourceStates, MaxGroupLen)

\* Uri.parse(uriString)
UriParse(str) == CHOOSE u \in Uris : UriString[u] = str

AggInit ==
  /\ indexGroup \in GroupValues
  /\ workingTreeGroup \in GroupValues
  /\ decorations = << >>
  /\ aggRegistered = TRUE
  /\ aggSubscribed = TRUE
  /\ operations = 0
  /\ emitted = 0
  /\ lastFired = [op |-> 0, uris |-> << >>]
  /\ oldDecorations = << >>
  /\ lastProvided = [uri |-> "none", value |-> NoDecoration]

RECURSIVE collectDecorationData(_, _, _)
\* group.resourceStates.forEach(r => { if (r.resourceDecoration) bucket.set(...) })
collectDecorationData(group, i, bucket) ==
  IF i > Len(group) THEN bucket
  ELSE collectDecorationData(group, i + 1,
         IF group[i].resourceDecoration # NoDecoration
           THEN MapSet(bucket, UriString[group[i].original], group[i].resourceDecoration)
           ELSE bucket)

RECURSIVE ForEachNew(_, _, _, _)
\* newDecorations.forEach: a key this.decorations has is deleted from it, any
\* other key is pushed to uris. Gives this.decorations and uris after the loop.
ForEachNew(newDecorations, i, decs, uris) ==
  IF i > Len(newDecorations) THEN [decs |-> decs, uris |-> uris]
  ELSE LET uriString == newDecorations[i].key
       IN  IF MapHas(decs, uriString)
             THEN ForEachNew(newDecorations, i + 1, MapDelete(decs, uriString), uris)
             ELSE ForEachNew(newDecorations, i + 1, decs,
                             Append(uris, UriParse(uriString)))

\* this.decorations.forEach((value, uriString) => uris.push(Uri.parse(uriString)))
ForEachRemaining(decs, uris) ==
  uris \o [i \in DOMAIN decs |-> UriParse(decs[i].key)]

\* Variant: the first loop does not delete the keys it finds in this.decorations.
onDidRunOperation_noDelete ==
  LET newDecorations ==
        collectDecorationData(workingTreeGroup', 1,
          collectDecorationData(indexGroup', 1, << >>))
      uris == ForEachRemaining(decorations,
                ForEachNew(newDecorations, 1, decorations, << >>).uris)
  IN  /\ decorations' = newDecorations
      /\ oldDecorations' = decorations
      /\ emitted' = emitted + 1
      /\ lastFired' = [op |-> operations', uris |-> uris]

\* Variant: the new entries are written over this.decorations, which keeps its
\* other entries.
onDidRunOperation_patch ==
  LET newDecorations ==
        collectDecorationData(workingTreeGroup', 1,
          collectDecorationData(indexGroup', 1, decorations))
      loop == ForEachNew(newDecorations, 1, decorations, << >>)
      uris == ForEachRemaining(loop.decs, loop.uris)
  IN  /\ decorations' = newDecorations
      /\ oldDecorations' = decorations
      /\ emitted' = emitted + 1
      /\ lastFired' = [op |-> operations', uris |-> uris]

\* Variant: nothing is fired when no uri changed.
onDidRunOperation_skipEmpty ==
  LET newDecorations ==
        collectDecorationData(workingTreeGroup', 1,
          collectDecorationData(indexGroup', 1, << >>))
      loop == ForEachNew(newDecorations, 1, decorations, << >>)
      uris == ForEachRemaining(loop.decs, loop.uris)
  IN  /\ decorations' = newDecorations
      /\ oldDecorations' = decorations
      /\ emitted' = IF uris = << >> THEN emitted ELSE emitted + 1
      /\ lastFired' = IF uris = << >> THEN lastFired
                                      ELSE [op |-> operations', uris |-> uris]

\* The listener of repository.onDidRunOperation; it reads the groups as the
\* operation left them.
onDidRunOperation ==
  LET newDecorations ==
        collectDecorationData(workingTreeGroup', 1,
          collectDecorationData(indexGroup', 1, << >>))
      loop == ForEachNew(newDecorations, 1, decorations, << >>)
      uris == ForEachRemaining(loop.decs, loop.uris)
  IN  /\ decorations' = newDecorations
      /\ oldDecorations' = decorations
      /\ emitted' = emitted + 1
      /\ lastFired' = [op |-> operations', uris |-> uris]

\* The repository runs an operation, which leaves its groups in any state, and
\* fires onDidRunOperation.
RunOperation(index, workingTree) ==
  /\ operations < MaxOperations
  /\ operations' = operations + 1
  /\ indexGroup' = index
  /\ workingTreeGroup' = workingTree
  /\ IF aggSubscribed
       THEN onDidRunOperation
       ELSE UNCHANGED <<decorations, oldDecorations, emitted, lastFired>>
  /\ UNCHANGED <<aggRegistered, aggSubscribed, lastProvided>>

\* Variant: a key that is not in the map is entered with no decoration.
aggProvideDecoration_insert(uri) ==
  /\ lastProvided' = [uri |-> uri,
                      value |-> IF MapHas(decorations, UriString[uri])
                                  THEN MapGet(decorations, UriString[uri])
                                  ELSE NoDecoration]
  /\ decorations' = IF MapHas(decorations, UriString[uri]) THEN decorations
                    ELSE MapSet(decorations, UriString[uri], NoDecoration)
  /\ UNCHANGED <<indexGroup, workingTreeGroup, aggRegistered, aggSubscribed,
                 operations, emitted, lastFired, oldDecorations>>

\* GitDecorationProvider.provideDecoration(uri): this.decorations.get(uri.toString()),
\* where NoDecoration stands for undefined.
aggProvideDecoration(uri) ==
  /\ lastProvided' = [uri |-> uri,
                      value |-> IF MapHas(decorations, UriString[uri])
                                  THEN MapGet(decorations, UriString[uri])
                                  ELSE NoDecoration]
  /\ UNCHANGED <<indexGroup, workingTreeGroup, decorations, aggRegistered,
                 aggSubscribed, operations, emitted, lastFired, oldDecorations>>

\* Variant: dispose() releases the registration and keeps the listener.
aggDispose_keepListener ==
  /\ aggRegistered' = FALSE
  /\ UNCHANGED <<aggSubscribed, indexGroup, workingTreeGroup, decorations,
                 operations, emitted, lastFired, oldDecorations,
                 lastProvided>>

aggDispose ==
  /\ aggRegistered' = FALSE
  /\ aggSubscribed' = FALSE
  /\ UNCHANGED <<indexGroup, workingTreeGroup, decorations, operations, emitted,
                 lastFired, oldDecorations, lastProvided>>

\* ------------------------------------------------------------- GitDecorations
Event(op, session, tracked, emitters) ==
  [op |-> op, session |-> session, tracked |-> tracked, emitters |-> emitters]

RegInit ==
  /\ repositories = << >>
  /\ constructed = FALSE
  /\ regSubscribed = FALSE
  /\ regDisposed = FALSE
  /\ providers = << >>
  /\ pairs = << >>
  /\ lastEvent = Event("none", "none", FALSE, {})

\* new GitDecorationProvider(repository), new GitIgnoreDecorationProvider(repository)
NewPair(repository) ==
  [repository |-> repository,
   provider |-> [registered |-> TRUE, subscribed |-> TRUE],
   ignoreProvider |-> [registered |-> TRUE]]

\* Disposable.from(provider, ignoreProvider).dispose(): both dispose() methods run.
PairDispose(pair) ==
  [pair EXCEPT !.provider = [registered |-> FALSE, subscribed |-> FALSE],
               !.ignoreProvider = [registered |-> FALSE]]

PairLive(pair) ==
  pair.provider.registered \/ pair.provider.subscribed \/ pair.ignoreProvider.registered

\* Variant: the new pair is not stored in providers.
onDidOpenRepository_noStore(st, repository) ==
  [st EXCEPT !.pairs = Append(st.pairs, NewPair(repository))]

\* st is [providers, pairs]; gives them as the listener leaves them.
onDidOpenRepository(st, repository) ==
  [providers |-> MapSet(st.providers, repository, Len(st.pairs) + 1),
   pairs |-> Append(st.pairs, NewPair(repository))]

\* Variant: the entry is deleted without disposing the pair.
onDidCloseRepository_noDispose(st, repository) ==
  IF MapHas(st.providers, repository)
    THEN [st EXCEPT !.providers = MapDelete(st.providers, repository)]
    ELSE st

onDidCloseRepository(st, repository) ==
  IF MapHas(st.providers, repository)
    THEN LET provider == MapGet(st.providers, repository)
         IN  [providers |-> MapDelete(st.providers, repository),
              pairs |-> [st.pairs EXCEPT ![provider] = PairDispose(@)]]
    ELSE st

\* Variant: the constructor only subscribes and binds no session that is open already.
ForEachRepository_none(st, repos, i) == st

RECURSIVE ForEachRepository(_, _, _)
\* model.repositories.forEach(this.onDidOpenRepository, this)
ForEachRepository(st, repos, i) ==
  IF i > Len(repos) THEN st
  ELSE ForEachRepository(onDidOpenRepository(st, repos[i]), repos, i + 1)

\* new GitDecorations(model)
Construct ==
  /\ ~constructed
  /\ Len(pairs) + Len(repositories) <= MaxPairs
  /\ constructed' = TRUE
  /\ regSubscribed' = TRUE
  /\ LET st == ForEachRepository([providers |-> providers, pairs |-> pairs],
                                 repositories, 1)
     IN  providers' = st.providers /\ pairs' = st.pairs
  /\ lastEvent' = Event("construct", "none", FALSE, {})
  /\ UNCHANGED <<repositories, regDisposed>>

\* The model opens a session it does not hold yet and fires onDidOpenRepository.
OpenRepository(r) ==
  /\ r \notin Range(repositories)
  /\ regSubscribed => Len(pairs) < MaxPairs
  /\ repositories' = Append(repositories, r)
  /\ LET st == IF regSubscribed
                 THEN onDidOpenRepository([providers |-> providers, pairs |-> pairs], r)
                 ELSE [providers |-> providers, pairs |-> pairs]
     IN  providers' = st.providers /\ pairs' = st.pairs
  /\ lastEvent' = Event("open", r, MapHas(providers, r), {})
  /\ UNCHANGED <<constructed, regSubscribed, regDisposed>>

\* The model fires onDidCloseRepository for a session, which it no longer holds then.
CloseRepository(r) ==
  /\ repositories' = SelectSeq(repositories, LAMBDA x : x # r)
  /\ LET st == IF regSubscribed
                 THEN onDidCloseRepository([providers |-> providers, pairs |-> pairs], r)
                 ELSE [providers |-> providers, pairs |-> pairs]
     IN  providers' = st.providers /\ pairs' = st.pairs
  /\ lastEvent' = Event("close", r, MapHas(providers, r), {})
  /\ UNCHANGED <<constructed, regSubscribed, regDisposed>>

\* An open session runs an operation: every aggregator still subscribed to it
\* recomputes its map and fires onDidChangeDecorations.
RepositoryOperation(r) ==
  /\ r \in Range(repositories)
  /\ lastEvent' = Event("operation", r, MapHas(providers, r),
                        {i \in DOMAIN pairs : pairs[i].repository = r
                                                /\ pairs[i].provider.subscribed})
  /\ UNCHANGED <<repositories, constructed, regSubscribed, regDisposed, providers, pairs>>

\* value => value.dispose : the arrow function reads the method and does not call it.
DisposeNotCalled(pair) == pair

\* GitDecorations.dispose()
registryDispose ==
  /\ constructed
  /\ regSubscribed' = FALSE
  /\ regDisposed' = TRUE
  /\ pairs' = [i \in DOMAIN pairs |->
                 IF \E e \in Range(providers) : e.value = i
                   THEN DisposeNotCalled(pairs[i]) ELSE pairs[i]]
  /\ providers' = MapClear(providers)
  /\ lastEvent' = Event("dispose", "none", FALSE, {})
  /\ UNCHANGED <<repositories, constructed>>

\* ------------------------------------------------------------------ history
HistInit ==
  /\ dispatchedLive = << >>
  /\ completedLive = << >>
  /\ handleCalls = [h \in Handles |-> 0]
  /\ releases = [h \in Handles |-> 0]

\* Disposable.dispose(): the number of release effects of one call on a handle;
\* the first call releases, a call on a released handle does nothing.
DisposableDispose(live) == IF live THEN 1 ELSE 0

\* d.dispose() is called on each handle of hs, whose liveness is live[h].
DisposeHandles(hs, live) ==
  /\ \A h \in hs : handleCalls[h] < MaxDisposeCalls
  /\ handleCalls' = [h \in Handles |->
                       IF h \in hs THEN handleCalls[h] + 1 ELSE handleCalls[h]]
  /\ releases' = [h \in Handles |->
                    IF h \in hs THEN releases[h] + DisposableDispose(live[h])
                                ELSE releases[h]]

\* Whether each handle is live, as the components' registration flags hold it.
Live == [h \in Handles |->
          CASE h = "ignoreRegistration" -> ignoreRegistered
            [] h = "aggRegistration"    -> aggRegistered
            [] h = "aggSubscription"    -> aggSubscribed
            [] h = "modelSubscriptions" -> regSubscribed]

\* ---------------------------------------------------------- specifications
\* The component a specification leaves alone stays as constructed.
AggIdle ==
  /\ indexGroup = << >>
  /\ workingTreeGroup = << >>
  /\ decorations = << >>
  /\ aggRegistered = TRUE
  /\ aggSubscribed = TRUE
  /\ operations = 0
  /\ emitted = 0
  /\ lastFired = [op |-> 0, uris |-> << >>]
  /\ oldDecorations = << >>
  /\ lastProvided = [uri |-> "none", value |-> NoDecoration]

RegIdle == RegInit

\* One coalescing query queue, its repository and the clock.
Init == QueueInit /\ AggIdle /\ RegIdle /\ HistInit

Next ==
  \/ UNCHANGED <<aggVars, regVars, histVars>> /\ \E uri \in Paths : provideDecoration(uri)
  \/ UNCHANGED <<aggVars, regVars, histVars>> /\ checkIgnoreSoon
  \/ UNCHANGED <<aggVars, regVars, histVars>> /\
       \E c \in DOMAIN calls : \E s \in SUBSET Range(calls[c].keys) :
         checkIgnoreFulfilled(c, s)
  \/ UNCHANGED <<aggVars, regVars, histVars>> /\
       \E c \in DOMAIN calls, e \in Errors : checkIgnoreRejected(c, e)
  \/ UNCHANGED <<aggVars, regVars, histVars>> /\ ignoreDispose
  \/ UNCHANGED <<aggVars, regVars, histVars>> /\ \E d \in TickSteps : Tick(d)

Spec == Init /\ [][Next]_vars

\* One decoration aggregator and its repository.
InitAgg == AggInit /\ QueueInit /\ RegIdle /\ HistInit

NextAgg ==
  \/ UNCHANGED <<queueVars, regVars, histVars>> /\
       \E index \in GroupValues, workingTree \in GroupValues :
         RunOperation(index, workingTree)
  \/ UNCHANGED <<queueVars, regVars, histVars>> /\ aggDispose

SpecAgg == InitAgg /\ [][NextAgg]_vars

\* The aggregator with the host's lookups between the repository's operations.
NextProvide ==
  \/ UNCHANGED <<queueVars, regVars, histVars>> /\
       \E index \in GroupValues, workingTree \in GroupValues :
         operations < MaxLookupOperations /\ RunOperation(index, workingTree)
  \/ UNCHANGED <<queueVars, regVars, histVars>> /\ aggDispose
  \/ UNCHANGED <<queueVars, regVars, histVars>> /\
       \E uri \in Uris : aggProvideDecoration(uri)

SpecProvide == InitAgg /\ [][NextProvide]_vars

\* The registry, the model and the sessions' provider pairs.
InitReg == RegInit /\ QueueInit /\ AggIdle /\ HistInit

NextReg ==
  \/ UNCHANGED <<queueVars, aggVars, histVars>> /\ Construct
  \/ UNCHANGED <<queueVars, aggVars, histVars>> /\ \E r \in Sessions : OpenRepository(r)
  \/ UNCHANGED <<queueVars, aggVars, histVars>> /\ \E r \in Sessions : CloseRepository(r)
  \/ UNCHANGED <<queueVars, aggVars, histVars>> /\ \E r \in Sessions : RepositoryOperation(r)
  \/ UNCHANGED <<queueVars, aggVars, histVars>> /\ registryDispose

SpecReg == InitReg /\ [][NextReg]_vars

\* The queue of Spec with the history of which lookups were issued and
\* completed before dispose().
NextLate ==
  \/ UNCHANGED <<aggVars, regVars, histVars>> /\
       \E uri \in Paths : provideDecoration(uri)
  \/ /\ UNCHANGED <<aggVars, regVars, handleCalls, releases>>
     /\ checkIgnoreSoon
     /\ dispatchedLive' = Append(dispatchedLive, ignoreRegistered)
     /\ completedLive' = Append(completedLive, TRUE)
  \/ /\ UNCHANGED <<aggVars, regVars, handleCalls, releases, dispatchedLive>>
     /\ \E c \in DOMAIN calls : \E s \in SUBSET Range(calls[c].keys) :
          /\ checkIgnoreFulfilled(c, s)
          /\ completedLive' = [completedLive EXCEPT ![c] = ignoreRegistered]
  \/ /\ UNCHANGED <<aggVars, regVars, handleCalls, releases, dispatchedLive>>
     /\ \E c \in DOMAIN calls, e \in Errors :
          /\ checkIgnoreRejected(c, e)
          /\ completedLive' = [completedLive EXCEPT ![c] = ignoreRegistered]
  \/ UNCHANGED <<aggVars, regVars, histVars>> /\ ignoreDispose
  \/ UNCHANGED <<aggVars, regVars, histVars>> /\ \E d \in TickSteps : Tick(d)

SpecLate == Init /\ [][NextLate]_vars

\* The three components and the dispose() calls made on them, with the
\* history of what each call does to the handles.
NextDispose ==
  \/ UNCHANGED <<aggVars, regVars, histVars>> /\
       \E uri \in Paths : provideDecoration(uri)
  \/ /\ UNCHANGED <<aggVars, regVars, dispatchedLive, completedLive>>
     /\ DisposeHandles({"ignoreRegistration"}, Live)
     /\ ignoreDispose
  \/ /\ UNCHANGED <<queueVars, regVars, dispatchedLive, completedLive>>
     /\ DisposeHandles({"aggRegistration", "aggSubscription"}, Live)
     /\ aggDispose
  \/ UNCHANGED <<queueVars, aggVars, histVars>> /\ Construct
  \/ UNCHANGED <<queueVars, aggVars, histVars>> /\ \E r \in Sessions : OpenRepository(r)
  \/ /\ UNCHANGED <<queueVars, aggVars, dispatchedLive, completedLive>>
     /\ DisposeHandles({"modelSubscriptions"}, Live)
     /\ registryDispose

SpecDispose == Init /\ [][NextDispose]_vars

\* ==================================================================== claims
Distinct(s) == \A i, j \in DOMAIN s : i # j => s[i] # s[j]

BurstPaths == [i \in DOMAIN burst |-> promises[burst[i]].path]

\* The quiet period after the run's last call is over and its timer callback has run.
BurstQuiet == sinceQuery = DebounceDelay /\ timer # 0

OneLookupForBurst ==
  /\ Len(burstCalls) = 1
  /\ Len(calls[burstCalls[1]].keys) = Len(burst)
  /\ Range(calls[burstCalls[1]].keys) = Range(BurstPaths)

\* C1 as stated: a run of provideDecoration calls for distinct paths, each less
\* than 500ms after the previous one, followed by 500ms without a call, leads to
\* exactly one checkIgnore call, whose argument holds exactly the run's paths.
C1_BatchCoalescing_AsStated ==
  (burst # << >> /\ Distinct(BurstPaths) /\ BurstQuiet) => OneLookupForBurst

\* C1 amended: the same, provided dispose() has not cleared the entry of any call
\* of the run before the lookup was issued.
C1_BatchCoalescing ==
  (burst # << >> /\ Distinct(BurstPaths) /\ BurstQuiet
     /\ Range(burst) \cap abandoned = {})
  => OneLookupForBurst

C1_Witness ==
  /\ Len(burst) = 3 /\ Distinct(BurstPaths) /\ BurstQuiet
  /\ Range(burst) \cap abandoned = {}
  /\ OneLookupForBurst

\* C2: a checkIgnore call is issued only when the full quiet period has passed
\* since the latest provideDecoration call: every call restarts the period.
C2_DebounceReset ==
  [][Len(calls') > Len(calls) => sinceQuery >= DebounceDelay]_vars

\* A lookup was issued for a batch of two calls, the second of which restarted
\* the period.
C2_Witness ==
  \E c \in DOMAIN calls : Len(calls[c].keys) >= 2

\* The promises of the batch of call c.
Batch(c) == {e.value : e \in Range(calls[c].queue)}

\* C3: when the lookup of a batch fulfils with ignoreSet, every promise of the
\* batch is resolved with true exactly when its key is in ignoreSet, and
\* provideDecoration yields {priority: 3, opacity: 0.75} for those keys and
\* undefined for the others.
C3_ResolutionCorrect ==
  \A c \in DOMAIN calls :
    calls[c].status = "ok" =>
      \A e \in Range(calls[c].queue) :
        LET pr == promises[e.value]
        IN  /\ pr.status = "resolved"
            /\ pr.ignored = (e.key \in calls[c].ignoreSet)
            /\ Outcome(pr) =
                 IF e.key \in calls[c].ignoreSet
                   THEN [state |-> "fulfilled",
                         value |-> [kind |-> "decoration", priority |-> 3,
                                    opacityPct |-> 75]]
                   ELSE [state |-> "fulfilled", value |-> [kind |-> "undefined"]]

C3_Witness ==
  \E c \in DOMAIN calls :
    /\ calls[c].status = "ok"
    /\ \E e1, e2 \in Range(calls[c].queue) :
         /\ e1.key \in calls[c].ignoreSet
         /\ e2.key \notin calls[c].ignoreSet
         /\ Outcome(promises[e1.value]).value.kind = "decoration"
         /\ Outcome(promises[e2.value]).value.kind = "undefined"

\* C4: when the lookup of a batch fails with an error, every promise of the batch
\* is rejected with that error and none is resolved; a promise of another batch
\* is rejected only by its own batch's error and is resolved only when its own
\* batch's lookup fulfilled.
C4_FailurePropagation ==
  /\ \A c \in DOMAIN calls :
       calls[c].status = "failed" =>
         \A f \in Batch(c) :
           promises[f].status = "rejected" /\ promises[f].err = calls[c].err
  /\ \A f \in DOMAIN promises :
       /\ promises[f].status = "rejected" =>
            \E c \in DOMAIN calls :
              f \in Batch(c) /\ calls[c].status = "failed"
                /\ calls[c].err = promises[f].err
       /\ promises[f].status = "resolved" =>
            \E c \in DOMAIN calls : f \in Batch(c) /\ calls[c].status = "ok"

C4_Witness ==
  \E c, d \in DOMAIN calls :
    /\ calls[c].status = "failed" /\ Cardinality(Batch(c)) >= 2
    /\ calls[d].status = "ok" /\ Batch(d) # {}
    /\ \A f \in Batch(c) : promises[f].status = "rejected"
    /\ \A f \in Batch(d) : promises[f].status = "resolved"

\* Nothing is left to run: no timer is armed and no lookup is in flight.
Quiescent ==
  /\ timer = TimerOff
  /\ \A c \in DOMAIN calls : calls[c].status # "inflight"

\* C5: no promise is settled twice, and in a queue that was never disposed, once
\* every lookup has completed and no timer is armed, every promise returned by
\* provideDecoration has been settled exactly once.
C5_ExactlyOnce ==
  /\ \A f \in DOMAIN promises : promises[f].settles <= 1
  /\ (ignoreRegistered /\ Quiescent) =>
       \A f \in DOMAIN promises :
         promises[f].settles = 1 /\ promises[f].status # "pending"

\* The provideDecoration calls made since the lookup before call c was issued.
Window(c) == ((IF c = 1 THEN 0 ELSE calls[c - 1].asked) + 1) .. calls[c].asked

CallsFor(p, W) == {f \in W : promises[f].path = p}

\* The keys asked at least twice in the window of call c.
Requeried(c) == {p \in Paths : Cardinality(CallsFor(p, Window(c))) >= 2}

Occurrences(keys, p) == Cardinality({i \in DOMAIN keys : keys[i] = p})

\* Call c carries key p once, with the callbacks of the latest call for p, and
\* these are the ones settled with the outcome of call c.
CarriesLatest(c, p) ==
  LET latest == Max(CallsFor(p, Window(c)))
  IN  /\ Occurrences(calls[c].keys, p) = 1
      /\ \E e \in Range(calls[c].queue) : e.key = p /\ e.value = latest
      /\ calls[c].status = "ok" =>
           /\ promises[latest].status = "resolved"
           /\ promises[latest].ignored = (p \in calls[c].ignoreSet)
      /\ calls[c].status = "failed" =>
           /\ promises[latest].status = "rejected"
           /\ promises[latest].err = calls[c].err

\* The pending set holds a key at most once, with the latest call for that key.
PendingHoldsLatest ==
  /\ Distinct(MapKeys(checkIgnoreQueue))
  /\ \A e \in Range(checkIgnoreQueue) :
       e.value = Max(CallsFor(e.key, DOMAIN promises))

KeySet(m) == {e.key : e \in Range(m)}

\* C7: the Uri[] fired by onDidRunOperation holds exactly the keys that are in
\* one of the map before the recomputation and the map after it and not in the
\* other, each once; a key of both maps is not in it, whatever its two values.
C7_SymmetricDifference ==
  emitted > 0 =>
    LET old == KeySet(oldDecorations)
        new == KeySet(decorations)
    IN  /\ {UriString[u] : u \in Range(lastFired.uris)} = (old \ new) \cup (new \ old)
        /\ Distinct(lastFired.uris)

\* An event fired for a recomputation that dropped a key, added a key and changed
\* the value of a key both maps hold.
C7_Witness ==
  /\ emitted > 0
  /\ KeySet(oldDecorations) \ KeySet(decorations) # {}
  /\ KeySet(decorations) \ KeySet(oldDecorations) # {}
  /\ \E k \in KeySet(oldDecorations) \cap KeySet(decorations) :
       MapGet(oldDecorations, k) # MapGet(decorations, k)
  /\ Len(lastFired.uris) = 2

Tracked(i) == \E e \in Range(providers) : e.value = i /\ e.key = pairs[i].repository

\* C8: after GitDecorations.dispose() the registry tracks no pair, every pair is
\* disposed (registration and subscription released) and no aggregator fires for
\* an operation that a repository runs afterwards.
C8_RegistryDispose ==
  regDisposed =>
    /\ providers = << >>
    /\ \A i \in DOMAIN pairs : ~PairLive(pairs[i])
    /\ lastEvent.op = "operation" => lastEvent.emitters = {}

\* C9: onDidCloseRepository for a tracked session disposes the aggregator and the
\* queue of the session's pair and removes the session from providers, leaving
\* every other pair and entry as it was; for a session that is not tracked it
\* changes nothing.
C9_SessionClose ==
  [][(lastEvent'.op = "close" /\ regSubscribed) =>
       LET s == lastEvent'.session
       IN  IF MapHas(providers, s)
             THEN LET i == MapGet(providers, s)
                  IN  /\ ~MapHas(providers', s)
                      /\ \A e \in Range(providers) : e.key # s => e \in Range(providers')
                      /\ Len(providers') = Len(providers) - 1
                      /\ DOMAIN pairs' = DOMAIN pairs
                      /\ ~pairs'[i].provider.registered
                      /\ ~pairs'[i].provider.subscribed
                      /\ ~pairs'[i].ignoreProvider.registered
                      /\ \A j \in DOMAIN pairs : j # i => pairs'[j] = pairs[j]
             ELSE providers' = providers /\ pairs' = pairs]_vars

\* A session was closed while tracked and then closed again, with another session
\* still tracked.
C9_Witness ==
  /\ lastEvent.op = "close" /\ ~lastEvent.tracked /\ regSubscribed
  /\ \E i \in DOMAIN pairs :
       pairs[i].repository = lastEvent.session /\ ~PairLive(pairs[i])
  /\ \E i \in DOMAIN pairs :
       pairs[i].repository # lastEvent.session /\ PairLive(pairs[i]) /\ Tracked(i)

TracksExactly(prov, prs, repos) ==
  /\ Len(prov) = Len(repos)
  /\ \A i \in DOMAIN repos :
       \E e \in Range(prov) :
         e.key = repos[i] /\ prs[e.value].repository = repos[i] /\ PairLive(prs[e.value])
  /\ \A e1, e2 \in Range(prov) : e1.value = e2.value => e1 = e2

\* C11: the constructor leaves the registry tracking exactly one pair per session
\* that is open already, k pairs for k sessions, with no onDidOpenRepository
\* event fired; every session opened afterwards adds one pair.
C11_RegistryCompleteness ==
  [][/\ lastEvent'.op = "construct" =>
          /\ TracksExactly(providers', pairs', repositories)
          /\ Len(pairs') = Len(repositories)
     /\ (lastEvent'.op = "open" /\ regSubscribed) =>
          /\ Len(pairs') = Len(pairs) + 1
          /\ Len(providers') = Len(providers) + 1
          /\ TracksExactly(providers', pairs', repositories')]_vars

\* The registry was constructed over two open sessions and tracks a pair for each.
C11_Witness ==
  /\ lastEvent.op = "construct"
  /\ Len(repositories) = 2
  /\ TracksExactly(providers, pairs, repositories)
  /\ Len(pairs) = 2

\* C13: a query whose entry was in the pending set when dispose() was called is
\* dropped: it is neither resolved nor rejected in any later state.
C13_AbandonOnDispose ==
  \A f \in abandoned :
    /\ promises[f].status = "pending"
    /\ promises[f].settles = 0
    /\ \A e \in Range(checkIgnoreQueue) : e.value # f
    /\ \A c \in DOMAIN calls : \A e \in Range(calls[c].queue) : e.value # f

\* A query was abandoned by dispose(), and a lookup dispatched afterwards for
\* the same path has completed successfully.
C13_Witness ==
  \E f \in abandoned : \E c \in DOMAIN calls :
    /\ calls[c].status = "ok"
    /\ calls[c].asked >= f
    /\ promises[f].path \in Range(calls[c].keys)
    /\ promises[f].path \in calls[c].ignoreSet

\* The batches of cs hold only queries issued before their dispatch, and no
\* query is in two batches.
FreshBatches(cs) ==
  /\ \A c \in DOMAIN cs : \A e \in Range(cs[c].queue) : e.value <= cs[c].asked
  /\ \A c1, c2 \in DOMAIN cs :
       \A e1 \in Range(cs[c1].queue) : \A e2 \in Range(cs[c2].queue) :
         e1.value = e2.value => c1 = c2

\* C16: a dispatch takes the whole pending set as its batch and empties the
\* pending set in the same step; a query issued after the dispatch is in no
\* batch dispatched before it, and a query is settled only in the step in which
\* the lookup of the batch that holds it (and carries its key) completes, in
\* whatever order the lookups complete.
C16_AtomicSwap ==
  [][/\ Len(calls') > Len(calls) =>
          /\ calls'[Len(calls')].queue = checkIgnoreQueue
          /\ calls'[Len(calls')].keys = MapKeys(checkIgnoreQueue)
          /\ checkIgnoreQueue' = << >>
          /\ FreshBatches(calls')
     /\ \A p \in DOMAIN promises :
          promises'[p] # promises[p] =>
            \E c \in DOMAIN calls :
              /\ calls[c].status = "inflight"
              /\ calls'[c].status # "inflight"
              /\ p \in Batch(c)
              /\ p <= calls[c].asked
              /\ promises[p].path \in Range(calls[c].keys)]_vars

\* Two batches carry the same key; the later one has completed and settled its
\* query while the earlier one is still in flight with its query pending.
C16_Witness ==
  \E c1, c2 \in DOMAIN calls : \E p1 \in Batch(c1) : \E p2 \in Batch(c2) :
    /\ c1 < c2
    /\ promises[p1].path = promises[p2].path
    /\ p2 > calls[c1].asked
    /\ calls[c1].status = "inflight"
    /\ calls[c2].status = "ok"
    /\ promises[p1].status = "pending"
    /\ promises[p2].status # "pending"

\* C19: once dispose() has been called the queue issues no further batched
\* lookup; a debounce timer armed before dispose() leads to no lookup afterwards.
C19_NoLookupAfterDispose ==
  [][~ignoreRegistered => Len(calls') = Len(calls)]_vars

\* The lookup of call c was issued before dispose() and completed after it.
SurvivedDispose(c) ==
  /\ calls[c].status # "inflight"
  /\ dispatchedLive[c]
  /\ ~completedLive[c]

\* C20: the queries of a batch dispatched before dispose() are settled when the
\* lookup completes after dispose(): resolved by membership of their key in the
\* ignored-set on success, rejected with the error on failure; none of them is
\* among the entries dropped by dispose().
C20_InFlightSurvivesDispose ==
  \A c \in DOMAIN calls :
    SurvivedDispose(c) =>
      /\ Batch(c) \cap abandoned = {}
      /\ \A e \in Range(calls[c].queue) :
           LET pr == promises[e.value]
           IN  /\ pr.settles = 1
               /\ calls[c].status = "ok" =>
                    Outcome(pr) = [state |-> "fulfilled",
                                   value |-> DecorationOf(e.key \in calls[c].ignoreSet)]
               /\ calls[c].status = "failed" =>
                    Outcome(pr) = [state |-> "rejected", err |-> calls[c].err]

\* Two lookups issued before dispose() completed after it, one with success and
\* an ignored key, one with failure, while dispose() dropped a pending query.
C20_Witness ==
  \E c1, c2 \in DOMAIN calls :
    /\ SurvivedDispose(c1) /\ calls[c1].status = "ok"
    /\ \E e \in Range(calls[c1].queue) : e.key \in calls[c1].ignoreSet
    /\ SurvivedDispose(c2) /\ calls[c2].status = "failed"
    /\ calls[c2].queue # << >>
    /\ abandoned # {}

\* C14: after the aggregator's dispose() no operation of the repository leads
\* to a notification, and the decoration map is not recomputed.
C14_AggregatorDispose ==
  [][~aggRegistered => UNCHANGED <<emitted, lastFired, decorations, oldDecorations>>]_vars

\* The aggregator fired for an operation, was disposed with a non-empty map, and
\* a later operation that emptied both groups went unobserved.
C14_Witness ==
  /\ ~aggRegistered
  /\ emitted >= 1
  /\ operations > emitted
  /\ decorations # << >>
  /\ indexGroup = << >> /\ workingTreeGroup = << >>

\* The resource states of both groups, index group first.
CurrentStates(index, workingTree) == index \o workingTree

\* The decoration the groups give to key: that of the last decorated state with
\* this original, so a working-tree state wins over an index state.
Decorated(states) == {i \in DOMAIN states : states[i].resourceDecoration # NoDecoration}
BuiltFrom(decs, states) ==
  /\ KeySet(decs) = {UriString[states[i].original] : i \in Decorated(states)}
  /\ Distinct(MapKeys(decs))
  /\ \A e \in Range(decs) :
       \E i \in Decorated(states) :
         /\ UriString[states[i].original] = e.key
         /\ states[i].resourceDecoration = e.value
         /\ \A j \in Decorated(states) :
              UriString[states[j].original] = e.key => j <= i

\* C17: after every observed operation the decoration map is exactly the map
\* built from the current groups: its keys are the originals of the decorated
\* states of the index and the working-tree group, each once, the working-tree
\* decoration winning for a key in both; no entry of the previous map survives
\* unless the current groups give it again.
C17_FullReplacement ==
  [][emitted' # emitted =>
       /\ BuiltFrom(decorations', CurrentStates(indexGroup', workingTreeGroup'))
       /\ \A e \in Range(decorations) :
            e \in Range(decorations') =>
              \E r \in Range(CurrentStates(indexGroup', workingTreeGroup')) :
                UriString[r.original] = e.key /\ r.resourceDecoration = e.value]_vars

\* The last operation dropped a key of the previous map, and a key that both
\* groups decorate differently carries the working-tree decoration.
C17_Witness ==
  /\ emitted >= 2
  /\ \E k \in KeySet(oldDecorations) : k \notin KeySet(decorations)
  /\ \E i \in DOMAIN indexGroup : \E w \in DOMAIN workingTreeGroup :
       /\ indexGroup[i].original = workingTreeGroup[w].original
       /\ indexGroup[i].resourceDecoration # NoDecoration
       /\ workingTreeGroup[w].resourceDecoration # NoDecoration
       /\ indexGroup[i].resourceDecoration # workingTreeGroup[w].resourceDecoration
       /\ MapGet(decorations, UriString[workingTreeGroup[w].original])
            = workingTreeGroup[w].resourceDecoration

\* C18: every operation observed by an undisposed aggregator fires exactly one
\* notification, also when no uri changed, and the n-th notification is the one
\* of the n-th operation.
C18_OneNotificationPerChange ==
  [][(operations' # operations /\ aggRegistered) =>
       /\ emitted' = emitted + 1
       /\ emitted' = operations'
       /\ lastFired'.op = operations'
       /\ lastFired.op = operations]_vars

\* The third operation changed nothing and still fired the third notification.
C18_Witness ==
  /\ aggRegistered
  /\ operations = 3 /\ emitted = 3
  /\ lastFired = [op |-> 3, uris |-> << >>]
  /\ decorations # << >>

C15_ProvideIsPureLookup ==
  [][lastProvided' # lastProvided =>
       /\ \/ \E e \in Range(decorations) :
               UriString[lastProvided'.uri] = e.key /\ lastProvided'.value = e.value
          \/ /\ UriString[lastProvided'.uri] \notin KeySet(decorations)
             /\ lastProvided'.value = NoDecoration
       /\ UNCHANGED <<decorations, oldDecorations, emitted, lastFired, operations,
                      indexGroup, workingTreeGroup, aggRegistered, aggSubscribed>>]_vars

\* A lookup returned a stored decoration after the aggregator was disposed and
\* an unobserved operation had emptied both groups.
C15_Witness ==
  /\ lastProvided.uri \in Uris
  /\ lastProvided.value \in Decorations
  /\ MapHas(decorations, UriString[lastProvided.uri])
  /\ MapGet(decorations, UriString[lastProvided.uri]) = lastProvided.value
  /\ Len(decorations) = 1
  /\ ~aggSubscribed
  /\ indexGroup = << >> /\ workingTreeGroup = << >>

=============================================================================
